---- MODULE Spec2Model ----
(***************************************************************************)
(* A model of server.py of the WYGIWYH MCP server: the schema resolver     *)
(* (convert_openapi_to_json_schema), the tool catalog builder              *)
(* (generate_tools_from_openapi) and the dispatcher (call_tool).           *)
(*                                                                         *)
(* Python values are modelled as follows.  A str is a sequence of          *)
(* one-character strings, so that prefixes, slices, split and replace are  *)
(* computed.  A dict is a function; the keys of a schema dict are the      *)
(* OpenAPI keywords, the keys of a `properties` dict are names.  A dict    *)
(* whose iteration order the code depends on (paths, a path item, the      *)
(* arguments) is a sequence of <<key, value>> pairs.  A list is a          *)
(* sequence.  Object identity matters in one place: the oneOf branch of    *)
(* the resolver returns an object of the document itself, and the catalog  *)
(* builder then writes to it.  An object of the document is named by its   *)
(* location, the sequence of keys that leads to it from the root.          *)
(***************************************************************************)
EXTENDS Integers, Sequences, FiniteSets, TLC

VARIABLES
    openapi_spec,   \* the document loaded at import (server.py:32-33)
    API_USERNAME,   \* os.getenv("API_USERNAME", "")
    API_PASSWORD,   \* os.getenv("API_PASSWORD", "")
    tools,          \* what the last tools/list returned, None before the first
    prev_tools,     \* what the tools/list before that returned
    call,           \* the last tools/call: its inputs, locals and result
    inbox,          \* a request drawn at start and not yet handled, or None
    resolved        \* the last result of convert_openapi_to_json_schema

vars == <<openapi_spec, API_USERNAME, API_PASSWORD, tools, prev_tools, call,
          inbox, resolved>>

None == [none |-> TRUE]

(***************************************************************************)
(* Bounds of the model.                                                    *)
(***************************************************************************)
MaxAllOf == 2    \* sub-schemas of an allOf fragment
MaxPaths == 2    \* path templates of a document
MaxArgs == 2     \* keys of an argument mapping

(***************************************************************************)
(* Strings.                                                                *)
(***************************************************************************)
EmptyStr == <<>>
EmptyDict == <<>>

Min(a, b) == IF a <= b THEN a ELSE b

HasKey(d, k) == k \in DOMAIN d

Get(d, k, default) == IF k \in DOMAIN d THEN d[k] ELSE default

Range(s) == {s[i] : i \in DOMAIN s}

\* F of the value of v, with v evaluated once
With(v, F(_)) == CHOOSE out \in {F(value) : value \in {v}} : TRUE

StartsWith(s, prefix) ==
    /\ Len(s) >= Len(prefix)
    /\ SubSeq(s, 1, Len(prefix)) = prefix

\* s[n:]
DropFirst(s, n) == SubSeq(s, n + 1, Len(s))

\* s[:n]
Truncate(s, n) == SubSeq(s, 1, Min(Len(s), n))

RECURSIVE Split(_, _)
\* s.split(sep) for a one-character sep
Split(s, sep) ==
    IF \A i \in DOMAIN s : s[i] # sep
    THEN <<s>>
    ELSE LET i == CHOOSE j \in DOMAIN s :
                      s[j] = sep /\ \A k \in 1..(j - 1) : s[k] # sep
         IN <<SubSeq(s, 1, i - 1)>>
            \o With(DropFirst(s, i), LAMBDA rest : Split(rest, sep))

RECURSIVE Replace(_, _, _)
\* s.replace(old, new) for a non-empty old: leftmost, non-overlapping
Replace(s, old, new) ==
    IF Len(s) < Len(old) THEN s
    ELSE IF SubSeq(s, 1, Len(old)) = old
         THEN new \o With(DropFirst(s, Len(old)),
                          LAMBDA rest : Replace(rest, old, new))
         ELSE <<Head(s)>> \o With(Tail(s), LAMBDA rest : Replace(rest, old, new))

UpperChar(c) ==
    CASE c = "g" -> "G" [] c = "e" -> "E" [] c = "t" -> "T" [] c = "p" -> "P"
      [] c = "o" -> "O" [] c = "s" -> "S" [] c = "u" -> "U" [] c = "a" -> "A"
      [] c = "c" -> "C" [] c = "h" -> "H" [] c = "d" -> "D" [] c = "l" -> "L"
      [] c = "i" -> "I" [] c = "n" -> "N"
      [] OTHER -> c

\* s.upper()
Upper(s) == [i \in DOMAIN s |-> UpperChar(s[i])]

PATH_ == <<"p", "a", "t", "h", "_">>
QUERY_ == <<"q", "u", "e", "r", "y", "_">>
BODY_ == <<"b", "o", "d", "y", "_">>

\* the methods a catalog entry is built for (server.py:129, 214)
HTTP_METHODS ==
    { <<"G", "E", "T">>, <<"P", "O", "S", "T">>, <<"P", "U", "T">>,
      <<"P", "A", "T", "C", "H">>, <<"D", "E", "L", "E", "T", "E">> }

(***************************************************************************)
(* Objects of the document, by location.                                   *)
(***************************************************************************)
RECURSIVE GetAt(_, _)
GetAt(v, loc) == IF loc = <<>> THEN v ELSE GetAt(v[Head(loc)], Tail(loc))

RECURSIVE SetKeyAt(_, _, _, _)
\* the object at loc gets obj[key] = value
SetKeyAt(v, loc, key, value) ==
    IF loc = <<>>
    THEN (key :> value) @@ v
    ELSE [v EXCEPT ![Head(loc)] = SetKeyAt(v[Head(loc)], Tail(loc), key, value)]

\* a reference to the object of the document at loc
Alias(loc) == [alias |-> loc]

IsAlias(v) == DOMAIN v = {"alias"}

\* the object a result of the resolver stands for, as it is now
View(mem, v) == IF IsAlias(v) THEN GetAt(mem, v.alias) ELSE v

(***************************************************************************)
(* The schema resolver, convert_openapi_to_json_schema (server.py:64-119). *)
(* Convert(mem, loc) is the result for the schema object at loc; mem is    *)
(* the document, which also gives `components`.                            *)
(***************************************************************************)
COMPONENTS == <<"c", "o", "m", "p", "o", "n", "e", "n", "t", "s">>
SCHEMAS == <<"s", "c", "h", "e", "m", "a", "s">>

\* the keys copied verbatim (server.py:115)
COPIED_KEYS ==
    { "description", "title", "maxLength", "minLength", "maximum", "minimum",
      "pattern", "format", "nullable", "items", "enum" }

\* components.get("schemas", {})
ComponentSchemas(mem) ==
    Get(Get(mem, "components", EmptyDict), "schemas", EmptyDict)

\* server.py:72-75: the $ref names a schema of components
RefResolves(mem, schema) ==
    LET ref_path == Split(schema["$ref"], "/")
    IN /\ Len(ref_path) >= 4
       /\ ref_path[1] = <<"#">>
       /\ ref_path[2] = COMPONENTS
       /\ ref_path[3] = SCHEMAS
       /\ ref_path[4] \in DOMAIN ComponentSchemas(mem)

RefLoc(schema) == <<"components", "schemas", Split(schema["$ref"], "/")[4]>>

\* prop_schema.get("readOnly", False)
IsReadOnly(prop_schema) == Get(prop_schema, "readOnly", FALSE) = TRUE

\* an update that keeps the value a key already has
UpdateEarlierWins(merged, new) == merged @@ new

\* merged_properties.update(converted["properties"])
Update(merged, new) == new @@ merged

\* list(set(merged_required)): one order, the same for the same set
RECURSIVE SetToList(_)
SetToList(S) ==
    IF S = {} THEN <<>>
    ELSE LET x == CHOOSE y \in S : TRUE IN <<x>> \o SetToList(S \ {x})

ListOfSet(merged_required) == SetToList(Range(merged_required))

\* the properties kept by the read-only filter (server.py:108-110)
WritableProperties(properties) ==
    {n \in DOMAIN properties : ~IsReadOnly(properties[n])}

\* merged_type = None; `not merged_type` holds of it
NoType == ""

RECURSIVE Convert(_, _)
RECURSIVE AllOfLoop(_, _, _, _)

\* server.py:83-90, from sub-schema i on
AllOfLoop(mem, loc, i, merged) ==
    IF i > Len(GetAt(mem, loc)["allOf"]) THEN merged
    ELSE With(View(mem, Convert(mem, loc \o <<"allOf", i>>)),
              LAMBDA converted :
                With([properties |->
                          IF HasKey(converted, "properties")
                          THEN Update(merged.properties, converted["properties"])
                          ELSE merged.properties,
                      required |->
                          IF HasKey(converted, "required")
                          THEN merged.required \o converted["required"]
                          ELSE merged.required,
                      type |->
                          IF HasKey(converted, "type") /\ merged.type = NoType
                          THEN converted["type"]
                          ELSE merged.type],
                     LAMBDA next : AllOfLoop(mem, loc, i + 1, next)))

\* server.py:78-98
ConvertAllOf(mem, loc) ==
    With(AllOfLoop(mem, loc, 1,
             [properties |-> EmptyDict, required |-> <<>>, type |-> NoType]),
         LAMBDA merged :
           ("type" :> (IF merged.type = NoType THEN "object" ELSE merged.type))
           @@ (IF merged.properties # EmptyDict
               THEN "properties" :> merged.properties ELSE EmptyDict)
           @@ (IF merged.required # <<>>
               THEN "required" :> ListOfSet(merged.required) ELSE EmptyDict))

\* server.py:100-101: the first alternative itself, not a copy of it
ConvertOneOf(mem, loc) == Alias(loc \o <<"oneOf", 1>>)

\* server.py:103-119
ConvertPlain(mem, loc) ==
    LET schema == GetAt(mem, loc)
        typePart == IF HasKey(schema, "type")
                    THEN "type" :> schema["type"] ELSE EmptyDict
        properties ==
            [n \in WritableProperties(Get(schema, "properties", EmptyDict)) |->
                Convert(mem, loc \o <<"properties", n>>)]
        copied == [k \in COPIED_KEYS \cap DOMAIN schema |-> schema[k]]
    IN With(IF HasKey(schema, "properties")
            THEN "properties" :> properties ELSE EmptyDict,
            LAMBDA propPart :
              typePart @@ propPart
              @@ (IF HasKey(schema, "required")
                  THEN "required" :>
                       SelectSeq(schema["required"],
                                 LAMBDA r : r \in DOMAIN Get(propPart, "properties",
                                                             EmptyDict))
                  ELSE EmptyDict)
              @@ copied)

Convert(mem, loc) ==
    With(GetAt(mem, loc),
         LAMBDA schema :
           IF DOMAIN schema = {}
           THEN [type |-> "object", properties |-> EmptyDict]
           ELSE IF HasKey(schema, "$ref") /\ RefResolves(mem, schema)
           THEN With(RefLoc(schema), LAMBDA target : Convert(mem, target))
           ELSE IF HasKey(schema, "allOf") THEN ConvertAllOf(mem, loc)
           ELSE IF HasKey(schema, "oneOf") THEN ConvertOneOf(mem, loc)
           ELSE ConvertPlain(mem, loc))

RECURSIVE Deref(_, _)
\* a result of the resolver as a reader sees it: every reference followed
Deref(mem, v) ==
    IF IsAlias(v) THEN GetAt(mem, v.alias)
    ELSE IF HasKey(v, "properties")
    THEN [v EXCEPT !["properties"] =
             [n \in DOMAIN v["properties"] |-> Deref(mem, v["properties"][n])]]
    ELSE v

(***************************************************************************)
(* The documents and schema fragments the model is run on.                 *)
(***************************************************************************)
id == <<"i", "d">>
name == <<"n", "a", "m", "e">>
amount == <<"a", "m", "o", "u", "n", "t">>
tag == <<"t", "a", "g">>

Entry == <<"E", "n", "t", "r", "y">>
Amount == <<"A", "m", "o", "u", "n", "t">>
Choice == <<"C", "h", "o", "i", "c", "e">>
Missing == <<"M", "i", "s", "s", "i", "n", "g">>

\* "#/components/schemas/<schema_name>"
Ref(schema_name) ==
    "$ref" :> (<<"#", "/">> \o COMPONENTS \o <<"/">> \o SCHEMAS \o <<"/">>
               \o schema_name)

ReadOnlyInteger == [type |-> "integer", readOnly |-> TRUE]

EntrySchema ==
    [type |-> "object",
     properties |-> (id :> ReadOnlyInteger) @@ (name :> [type |-> "string"]),
     required |-> <<id, name>>]

AmountSchema ==
    [type |-> "object",
     properties |-> (name :> [type |-> "integer"])
                    @@ (amount :> [type |-> "number", minimum |-> 0]),
     required |-> <<amount, name>>]

TaggedAlternative ==
    [type |-> "object",
     properties |-> (id :> ReadOnlyInteger) @@ (tag :> [type |-> "string"]),
     required |-> <<id, tag>>]

ChoiceSchema == [oneOf |-> <<TaggedAlternative, [type |-> "string"]>>]

Components ==
    [schemas |-> (Entry :> EntrySchema) @@ (Amount :> AmountSchema)
                 @@ (Choice :> ChoiceSchema)]

\* the schemas a fragment is composed of
SubSchemas ==
    { Ref(Entry), Ref(Amount), Ref(Choice), Ref(Missing),
      EmptyDict,
      [type |-> "string", description |-> <<"t">>, readOnly |-> TRUE],
      [properties |-> (tag :> Ref(Choice)) @@ (amount :> ReadOnlyInteger),
       required |-> <<tag, amount, id>>],
      [type |-> "object",
       properties |-> (id :> [type |-> "string"]),
       required |-> <<id>>] }

SeqsUpTo(S, n) == UNION {[1..k -> S] : k \in 1..n}

Fragments ==
    SubSchemas
    \cup {[allOf |-> subs] : subs \in SeqsUpTo(SubSchemas, MaxAllOf)}
    \cup {[oneOf |-> <<s>>] : s \in SubSchemas}

EmptyDocument == [paths |-> <<>>, components |-> Components]

NoCatalog == [returned |-> FALSE]

(***************************************************************************)
(* The resolver applied to a fragment.                                     *)
(***************************************************************************)
\* the document with the fragment as one more object
WithArg(mem, fragment) == ("arg" :> fragment) @@ mem

Resolve ==
    /\ inbox # None
    /\ inbox.kind = "resolve"
    /\ LET mem == WithArg(openapi_spec, inbox.schema)
       IN resolved' = [schema |-> inbox.schema,
                       result |-> Deref(mem, Convert(mem, <<"arg">>))]
    /\ inbox' = None
    /\ UNCHANGED <<openapi_spec, API_USERNAME, API_PASSWORD, tools,
                   prev_tools, call>>

InitResolve ==
    /\ openapi_spec = EmptyDocument
    /\ API_USERNAME = <<"u">>
    /\ API_PASSWORD = <<"p">>
    /\ tools = NoCatalog
    /\ prev_tools = NoCatalog
    /\ call = None
    /\ inbox \in {[kind |-> "resolve", schema |-> f] : f \in Fragments}
    /\ resolved = None

NextResolve == Resolve

SpecResolve == InitResolve /\ [][NextResolve]_vars

(***************************************************************************)
(* The catalog builder, generate_tools_from_openapi (server.py:121-188).   *)
(* `paths` is a sequence of <<path, path_item>> and a path item a sequence *)
(* of <<method, operation>>, in the order of the document.                 *)
(***************************************************************************)
\* the content types tried, in this order (server.py:163)
CONTENT_TYPES ==
    << "application/json", "application/x-www-form-urlencoded",
       "multipart/form-data", "text/plain" >>

\* description[:1024] (server.py:182)
DescriptionLimit == 1024

\* server.py:129: the method is one a tool is built for
IsToolMethod(method) == Upper(method) \in HTTP_METHODS

\* the <<i, j>> of every operation, paths first, methods within a path
RECURSIVE OperationsFrom(_, _, _)
OperationsFrom(paths, i, j) ==
    IF i > Len(paths) THEN <<>>
    ELSE IF j > Len(paths[i][2]) THEN OperationsFrom(paths, i + 1, 1)
    ELSE <<(<<i, j>>)>> \o OperationsFrom(paths, i, j + 1)

Operations(spec) == OperationsFrom(Get(spec, "paths", <<>>), 1, 1)

OperationLoc(ij) == <<"paths", ij[1], 2, ij[2], 2>>

PathOf(spec, ij) == spec["paths"][ij[1]][1]

MethodOf(spec, ij) == spec["paths"][ij[1]][2][ij[2]][1]

OperationOf(spec, ij) == spec["paths"][ij[1]][2][ij[2]][2]

\* a name that ignores the operationId
FallbackNameAlways(method, path, operation) == method \o <<"_">> \o path

\* server.py:132
OperationId(method, path, operation) ==
    Get(operation, "operationId", method \o <<"_">> \o path)

\* server.py:133
Description(method, path, operation) ==
    Get(operation, "description",
        Get(operation, "summary", Upper(method) \o <<" ">> \o path))

\* server.py:143, 147-150: the key of a parameter in the input schema
NamespacedParam(param) ==
    IF param["in"] = "path" THEN PATH_ \o param["name"]
    ELSE IF param["in"] = "query" THEN QUERY_ \o param["name"]
    ELSE param["name"]

\* server.py:142-155, from parameter k on; st is [mem, properties, required]
RECURSIVE ParamLoop(_, _, _)
ParamLoop(opLoc, k, st) ==
    IF k > Len(GetAt(st.mem, opLoc)["parameters"]) THEN st
    ELSE LET param == GetAt(st.mem, opLoc)["parameters"][k]
             description == Get(param, "description", EmptyStr)
             param_name == NamespacedParam(param)
         IN With(IF HasKey(param, "schema")
                 THEN Convert(st.mem, opLoc \o <<"parameters", k, "schema">>)
                 ELSE Convert(WithArg(st.mem, [type |-> "string"]), <<"arg">>),
                 LAMBDA param_schema :
                   \* param_schema["description"] = ...: a write to the
                   \* object param_schema is, which is an object of the
                   \* document when the resolver returned one
                   With([mem |->
                             IF IsAlias(param_schema)
                             THEN SetKeyAt(st.mem, param_schema.alias,
                                           "description", description)
                             ELSE st.mem,
                         properties |->
                             (param_name :>
                                 IF IsAlias(param_schema) THEN param_schema
                                 ELSE ("description" :> description)
                                      @@ param_schema)
                             @@ st.properties,
                         required |->
                             IF Get(param, "required", FALSE) = TRUE
                             THEN Append(st.required, param_name)
                             ELSE st.required],
                        LAMBDA next : ParamLoop(opLoc, k + 1, next)))

\* server.py:161-167: the content type whose schema is taken, if any
PreferredContentTypes(content) ==
    {i \in DOMAIN CONTENT_TYPES : CONTENT_TYPES[i] \in DOMAIN content}

\* server.py:157-178
BodyStep(opLoc, st) ==
    LET content == Get(GetAt(st.mem, opLoc)["requestBody"], "content", EmptyDict)
        present == PreferredContentTypes(content)
        first == CHOOSE i \in present : \A j \in present : i <= j
        ct == CONTENT_TYPES[first]
        body_schema == Get(content[ct], "schema", EmptyDict)
    IN IF present = {} \/ DOMAIN body_schema = {} THEN st
       ELSE With(View(st.mem,
                      Convert(st.mem,
                              opLoc \o <<"requestBody", "content", ct, "schema">>)),
                 LAMBDA converted_schema :
                   IF ~HasKey(converted_schema, "properties") THEN st
                   ELSE [mem |-> st.mem,
                         properties |->
                             [n \in {BODY_ \o prop_name :
                                        prop_name \in DOMAIN converted_schema["properties"]} |->
                                 converted_schema["properties"][DropFirst(n, Len(BODY_))]]
                             @@ st.properties,
                         required |->
                             IF HasKey(converted_schema, "required")
                             THEN st.required
                                  \o [i \in DOMAIN converted_schema["required"] |->
                                         BODY_ \o converted_schema["required"][i]]
                             ELSE st.required])

\* server.py:132-186: the tool of one operation, and the document after it
ToolOf(mem, ij) ==
    LET opLoc == OperationLoc(ij)
        operation == GetAt(mem, opLoc)
        method == MethodOf(mem, ij)
        path == PathOf(mem, ij)
        st0 == [mem |-> mem, properties |-> EmptyDict, required |-> <<>>]
    IN With(IF HasKey(operation, "parameters")
            THEN ParamLoop(opLoc, 1, st0) ELSE st0,
            LAMBDA st1 :
              With(IF HasKey(operation, "requestBody")
                   THEN BodyStep(opLoc, st1) ELSE st1,
                   LAMBDA st2 :
                     [mem |-> st2.mem,
                      tool |->
                          [name |-> OperationId(method, path, operation),
                           description |->
                               Truncate(Description(method, path, operation),
                                        DescriptionLimit),
                           inputSchema |-> [type |-> "object",
                                            properties |-> st2.properties,
                                            required |-> st2.required]]]))

\* server.py:127-186, from operation n of ops on; acc is [mem, tools]
RECURSIVE ToolsLoop(_, _, _)
ToolsLoop(ops, n, acc) ==
    IF n > Len(ops) THEN acc
    ELSE IF ~IsToolMethod(MethodOf(acc.mem, ops[n]))
    THEN ToolsLoop(ops, n + 1, acc)
    ELSE With(ToolOf(acc.mem, ops[n]),
              LAMBDA r :
                With([mem |-> r.mem, tools |-> Append(acc.tools, r.tool)],
                     LAMBDA next : ToolsLoop(ops, n + 1, next)))

\* a tool as its reader sees it once the build has returned
Seen(mem, tool) ==
    [tool EXCEPT !.inputSchema.properties =
        [n \in DOMAIN tool.inputSchema.properties |->
            Deref(mem, tool.inputSchema.properties[n])]]

\* server.py:121-188: the list returned, and the document after the build
GenerateTools(spec) ==
    With(Operations(spec),
         LAMBDA ops :
           With(ToolsLoop(ops, 1, [mem |-> spec, tools |-> <<>>]),
                LAMBDA r :
                  [mem |-> r.mem,
                   tools |-> [i \in DOMAIN r.tools |-> Seen(r.mem, r.tools[i])]]))

\* list_tools (server.py:190-193), get_tools_list (server.py:37-47)
ListTools ==
    /\ \E r \in {GenerateTools(openapi_spec)} :
           /\ tools' = [returned |-> TRUE, tools |-> r.tools]
           /\ openapi_spec' = r.mem
    /\ prev_tools' = tools
    /\ UNCHANGED <<API_USERNAME, API_PASSWORD, call, inbox, resolved>>

(***************************************************************************)
(* The dispatcher, call_tool (server.py:195-332).                          *)
(* An ordered dict is a sequence of <<key, value>> pairs with distinct     *)
(* keys.  An argument value is [str |-> s] or [int |-> n].                 *)
(***************************************************************************)
\* API_BASE_URL (server.py:21)
API_BASE_URL ==
    << "h", "t", "t", "p", "s", ":", "/", "/", "y", "o", "u", "r", "-",
       "W", "Y", "G", "I", "W", "Y", "H", ".", "c", "o", "m" >>

\* response.text[:500] (server.py:294, 321)
TextLimit == 500

NO_CONTENT == 204

Keys(d) == {d[i][1] : i \in DOMAIN d}

Lookup(d, k) == d[CHOOSE i \in DOMAIN d : d[i][1] = k][2]

\* d[k] = v
DictSet(d, k, v) ==
    IF k \in Keys(d)
    THEN [i \in DOMAIN d |-> IF d[i][1] = k THEN <<k, v>> ELSE d[i]]
    ELSE Append(d, <<k, v>>)

\* the dict d as a function from its keys
AsFunction(d) == [k \in Keys(d) |-> Lookup(d, k)]

Digit(n) == <<"0", "1", "2", "3", "4", "5", "6", "7", "8", "9">>[n + 1]

RECURSIVE Decimal(_)
Decimal(n) ==
    IF n < 10 THEN <<Digit(n)>> ELSE Decimal(n \div 10) \o <<Digit(n % 10)>>

\* str(param_value)
Str(value) == IF HasKey(value, "int") THEN Decimal(value["int"]) ELSE value["str"]

\* base64 of the text, kept as the text it encodes
B64(text) == <<[b64encode |-> text]>>

\* a header built as soon as the username is set
AuthHeaderUsernameOnly(api_username, api_password) ==
    IF api_username # EmptyStr
    THEN B64(api_username \o <<":">> \o api_password)
    ELSE EmptyStr

\* get_auth_header (server.py:23-30)
GetAuthHeader(api_username, api_password) ==
    IF api_username # EmptyStr /\ api_password # EmptyStr
    THEN B64(api_username \o <<":">> \o api_password)
    ELSE EmptyStr

\* server.py:212-222: the operations whose operationId is the name, in the
\* order of the scan
Matches(spec, tool_name) ==
    SelectSeq(Operations(spec),
              LAMBDA ij : /\ IsToolMethod(MethodOf(spec, ij))
                          /\ HasKey(OperationOf(spec, ij), "operationId")
                          /\ OperationOf(spec, ij)["operationId"] = tool_name)

\* the slice of the path_ branch taken in the query_ branch
QuerySuffixAsPath(key) == DropFirst(key, 5)

\* key[6:] (server.py:238)
QuerySuffix(key) == DropFirst(key, 6)

\* server.py:230-240, from argument i on
RECURSIVE SplitLoop(_, _, _)
SplitLoop(arguments, i, acc) ==
    IF i > Len(arguments) THEN acc
    ELSE LET key == arguments[i][1]
             value == arguments[i][2]
         IN With(IF StartsWith(key, PATH_)
                 THEN [acc EXCEPT !.path_params = DictSet(@, DropFirst(key, 5), value)]
                 ELSE IF StartsWith(key, QUERY_)
                 THEN [acc EXCEPT !.query_params = DictSet(@, QuerySuffix(key), value)]
                 ELSE IF StartsWith(key, BODY_)
                 THEN [acc EXCEPT !.body_data = DictSet(@, DropFirst(key, 5), value)]
                 ELSE acc,
                 LAMBDA next : SplitLoop(arguments, i + 1, next))

SplitArguments(arguments) ==
    SplitLoop(arguments, 1,
              [path_params |-> <<>>, query_params |-> <<>>, body_data |-> <<>>])

\* server.py:242-244, from path parameter i on
RECURSIVE UrlLoop(_, _, _)
UrlLoop(url, path_params, i) ==
    IF i > Len(path_params) THEN url
    ELSE With(Replace(url, <<"{">> \o path_params[i][1] \o <<"}">>,
                      Str(path_params[i][2])),
              LAMBDA next : UrlLoop(next, path_params, i + 1))

\* server.py:242-246
FullUrl(path, path_params) == API_BASE_URL \o UrlLoop(path, path_params, 1)

GET == <<"G", "E", "T">>
POST == <<"P", "O", "S", "T">>
PUT == <<"P", "U", "T">>
PATCH == <<"P", "A", "T", "C", "H">>
DELETE == <<"D", "E", "L", "E", "T", "E">>

\* server.py:255-276: the methods whose branch sends body_data when there is
\* some
BodyMethods == {POST, PUT, PATCH}

\* server.py:248-278: the request sent, as the arguments of the client call
Request(method, full_url, auth_header, query_params, body_data) ==
    LET headers == [Authorization |-> <<"Basic", auth_header>>,
                    Accept |-> "application/json"]
        plain == [method |-> method, url |-> full_url, headers |-> headers,
                  params |-> query_params]
    IN IF method \in BodyMethods /\ body_data # <<>>
       THEN [plain EXCEPT !.headers =
                ("Content-Type" :> "application/json") @@ headers]
            @@ [json |-> AsFunction(body_data)]
       ELSE plain

TEXT_HTML == <<"t", "e", "x", "t", "/", "h", "t", "m", "l">>

\* sub in s
Contains(s, sub) ==
    \E i \in 0..(Len(s) - Len(sub)) : SubSeq(s, i + 1, i + Len(sub)) = sub

\* a check that lets the client errors through
RaisesOnlyServerErrors(status_code) == status_code >= 500

\* response.raise_for_status() raises (server.py:280): httpx raises for
\* every status that is not a success (2xx)
RaisesForStatus(status_code) == status_code < 200 \/ status_code >= 300

\* server.py:282
IsNoContent(status_code) == status_code = NO_CONTENT

\* server.py:282-297
SuccessPayload(response) ==
    IF IsNoContent(response.status_code)
    THEN [status |-> "success",
          message |-> "Resource deleted or no content returned"]
    ELSE IF response.body.parses
    THEN response.body.json
    ELSE IF Contains(response.content_type, TEXT_HTML)
    THEN [status |-> "success",
          content_type |-> response.content_type,
          message |-> "Response received (HTML content)",
          text_preview |-> Truncate(response.body.text, TextLimit)]
    ELSE [response |-> response.body.text]

\* server.py:304-321
ErrorDetail(response) ==
    IF response.body.parses
    THEN [json |-> response.body.json]
    ELSE IF Contains(response.content_type, TEXT_HTML)
    THEN [html_error_page |-> response.status_code,
          title |-> response.body.title]
    ELSE [text |-> Truncate(response.body.text, TextLimit)]

\* server.py:280-332: the result for what came back
Classify(response) ==
    IF response.transport_error
    THEN [kind |-> "TransportError"]
    ELSE IF RaisesForStatus(response.status_code)
    THEN [kind |-> "HttpError", status_code |-> response.status_code,
          detail |-> ErrorDetail(response)]
    ELSE [kind |-> "Success", payload |-> SuccessPayload(response)]

\* call_tool (server.py:195-332), call_tool_internal (server.py:49-62)
CallTool(tool_name, arguments, response) ==
    /\ \E matches \in {Matches(openapi_spec, tool_name)},
          split \in {SplitArguments(arguments)} :
        LET auth_header == GetAuthHeader(API_USERNAME, API_PASSWORD)
            path == PathOf(openapi_spec, matches[1])
            method == Upper(MethodOf(openapi_spec, matches[1]))
            full_url == FullUrl(path, split.path_params)
            input == [name |-> tool_name, arguments |-> arguments,
                      response |-> response]
        IN call' =
            IF auth_header = EmptyStr
            THEN input @@ [stage |-> "credentials", requests |-> <<>>,
                           result |-> [kind |-> "MissingCredentials"]]
            ELSE IF matches = <<>>
            THEN input @@ [stage |-> "lookup", requests |-> <<>>,
                           result |-> [kind |-> "ToolNotFound"]]
            ELSE IF method \notin HTTP_METHODS
            THEN input @@ [stage |-> "method", requests |-> <<>>,
                           result |-> [kind |-> "UnsupportedMethod"]]
            ELSE input @@
                 [stage |-> "sent",
                  path |-> path,
                  method |-> method,
                  path_params |-> split.path_params,
                  query_params |-> split.query_params,
                  body_data |-> split.body_data,
                  full_url |-> full_url,
                  requests |-> <<Request(method, full_url, auth_header,
                                         split.query_params, split.body_data)>>,
                  result |-> Classify(response)]
    /\ UNCHANGED <<openapi_spec, API_USERNAME, API_PASSWORD, tools,
                      prev_tools, resolved>>

(***************************************************************************)
(* The path items documents are made of.                                   *)
(***************************************************************************)
read == <<"r", "e", "a", "d">>
drop == <<"d", "r", "o", "p">>
add == <<"a", "d", "d">>
move == <<"m", "o", "v", "e">>
edit == <<"e", "d", "i", "t">>
nope == <<"n", "o", "p", "e">>

x == <<"x">>
y == <<"y">>
kind == <<"k", "i", "n", "d">>

StringSchema == [type |-> "string"]

PathParam(param) ==
    [name |-> param, in |-> "path", required |-> TRUE, schema |-> StringSchema]

JsonBody(schema) == [content |-> ("application/json" :> [schema |-> schema])]

\* /e/{id}: get `read`, delete `drop` with a request body
EntryItem ==
    << <<"/", "e", "/", "{", "i", "d", "}">>,
       << << <<"g", "e", "t">>,
             [operationId |-> read,
              description |-> <<"R">>,
              parameters |-> <<PathParam(id)>>] >>,
          << <<"d", "e", "l", "e", "t", "e">>,
             [operationId |-> drop,
              parameters |-> <<PathParam(id)>>,
              requestBody |-> JsonBody(Ref(Choice))] >> >> >>

\* /e: post `add` with a composed body, get with no operationId
EntriesItem ==
    << <<"/", "e">>,
       << << <<"p", "o", "s", "t">>,
             [operationId |-> add,
              summary |-> <<"A">>,
              requestBody |->
                  JsonBody([allOf |-> <<Ref(Entry), Ref(Amount)>>])] >>,
          << <<"g", "e", "t">>,
             [parameters |-> << [name |-> tag, in |-> "query"] >>] >> >> >>

\* /c: get with the operationId of /e/{id}'s get, a header parameter and a
\* parameter whose schema is a oneOf; options, which is no tool method
ChoiceItem ==
    << <<"/", "c">>,
       << << <<"g", "e", "t">>,
             [operationId |-> read,
              parameters |->
                  << [name |-> kind, in |-> "query", description |-> <<"k">>,
                      schema |-> Ref(Choice)],
                     [name |-> x, in |-> "header", required |-> TRUE] >>] >>,
          << <<"o", "p", "t", "i", "o", "n", "s">>,
             [operationId |-> nope] >> >> >>

\* /d/{x}/{y}: put `move` with two path parameters
MoveItem ==
    << <<"/", "d", "/", "{", "x", "}", "/", "{", "y", "}">>,
       << << <<"p", "u", "t">>,
             [operationId |-> move,
              parameters |->
                  << PathParam(x), PathParam(y),
                     [name |-> kind, in |-> "query", description |-> <<"q">>,
                      schema |-> Ref(Choice)] >>,
              requestBody |->
                  [content |->
                      ("text/plain" :> [schema |-> [oneOf |-> <<AmountSchema>>]])
                      @@ ("multipart/form-data" :> [schema |-> EmptyDict])]] >> >> >>

\* the name generate_tools_from_openapi gives /e's get, which has no
\* operationId
get_e == <<"g", "e", "t", "_", "/", "e">>

\* /p: patch `edit`, an inline oneOf parameter, a form body; post, whose
\* operationId is get_e
EditItem ==
    << <<"/", "p">>,
       << << <<"p", "a", "t", "c", "h">>,
             [operationId |-> edit,
              description |-> <<"E">>,
              summary |-> <<"e">>,
              parameters |->
                  << [name |-> kind, in |-> "query", description |-> <<"s">>,
                      schema |-> [oneOf |-> <<StringSchema>>]] >>,
              requestBody |->
                  [content |->
                      ("application/x-www-form-urlencoded" :>
                          [schema |-> [properties |-> (tag :> Ref(Choice)),
                                       required |-> <<tag>>]])]] >>,
          << <<"p", "o", "s", "t">>,
             [operationId |-> get_e] >> >> >>

PathItems == {EntryItem, EntriesItem, ChoiceItem, MoveItem, EditItem}

\* a dict has a key once
DistinctKeys(d) == \A i, j \in DOMAIN d : d[i][1] = d[j][1] => i = j

Documents ==
    { [paths |-> ps, components |-> Components] :
        ps \in {d \in {<<>>} \cup SeqsUpTo(PathItems, MaxPaths) : DistinctKeys(d)} }

FullDocument ==
    [paths |-> <<EntryItem, EntriesItem, ChoiceItem, MoveItem, EditItem>>,
     components |-> Components]

\* the environments: each of the two variables set or not
Environments ==
    {<<username, password>> :
        username \in {EmptyStr, <<"u">>}, password \in {EmptyStr, <<"p">>}}

ToolNames == {read, drop, add, move, edit, nope}

ArgumentKeys ==
    { PATH_ \o x, PATH_ \o y, QUERY_ \o kind, BODY_ \o name, x }

ArgumentValues == { [str |-> <<"1">>], [str |-> <<"{", "y", "}">>], [int |-> 42] }

ArgumentMappings ==
    {a \in {<<>>} \cup SeqsUpTo(ArgumentKeys \X ArgumentValues, MaxArgs) :
        DistinctKeys(a)}

APPLICATION_JSON ==
    << "a", "p", "p", "l", "i", "c", "a", "t", "i", "o", "n", "/",
       "j", "s", "o", "n" >>

TEXT_PLAIN == <<"t", "e", "x", "t", "/", "p", "l", "a", "i", "n">>

\* what the downstream API may answer with
Bodies ==
    { [parses |-> TRUE, json |-> [detail |-> "not found"],
       text |-> <<"{", "}">>, title |-> "none"],
      [parses |-> FALSE, json |-> [detail |-> "none"],
       text |-> <<"<", "t", ">">>, title |-> "Oops"] }

StatusCodes == {200, 201, 204, 302, 400, 404, 500}

Responses ==
    { [transport_error |-> FALSE, status_code |-> sc, content_type |-> ct,
       body |-> b] :
        sc \in StatusCodes, ct \in {APPLICATION_JSON, TEXT_HTML, TEXT_PLAIN},
        b \in Bodies }
    \cup { [transport_error |-> TRUE] }

OkResponse ==
    [transport_error |-> FALSE, status_code |-> 200,
     content_type |-> APPLICATION_JSON,
     body |-> [parses |-> TRUE, json |-> [detail |-> "found"],
               text |-> <<"[", "]">>, title |-> "none"]]

(***************************************************************************)
(* The server: any sequence of tools/list and tools/call.                  *)
(***************************************************************************)
ClientArguments ==
    { <<>>, << <<PATH_ \o id, [int |-> 42]>>, <<BODY_ \o name, [str |-> <<"1">>]>> >> }

ClientResponses ==
    { OkResponse, [OkResponse EXCEPT !.status_code = 404] }

CallFromClient ==
    /\ \E tool_name \in {read, add, nope}, arguments \in ClientArguments,
          response \in ClientResponses :
           CallTool(tool_name, arguments, response)
    /\ UNCHANGED inbox

Init ==
    /\ openapi_spec \in Documents
    /\ \E configured \in BOOLEAN :
           /\ API_USERNAME = IF configured THEN <<"u">> ELSE EmptyStr
           /\ API_PASSWORD = IF configured THEN <<"p">> ELSE EmptyStr
    /\ tools = NoCatalog
    /\ prev_tools = NoCatalog
    /\ call = None
    /\ inbox = None
    /\ resolved = None

Next == ListTools \/ CallFromClient

Spec == Init /\ [][Next]_vars

(***************************************************************************)
(* One tools/call on the full document, for every request of two families: *)
(* every argument mapping with one answer, and every answer.               *)
(***************************************************************************)
CallRequests ==
    { [kind |-> "call", name |-> n, arguments |-> a, response |-> OkResponse] :
        n \in ToolNames, a \in ArgumentMappings }
    \cup
    { [kind |-> "call", name |-> n, arguments |-> a, response |-> r] :
        n \in {read, nope}, a \in ClientArguments, r \in Responses }

Dispatch ==
    /\ inbox # None
    /\ inbox.kind = "call"
    /\ CallTool(inbox.name, inbox.arguments, inbox.response)
    /\ inbox' = None

InitDispatch ==
    /\ openapi_spec = FullDocument
    /\ \E env \in Environments :
           /\ API_USERNAME = env[1]
           /\ API_PASSWORD = env[2]
    /\ tools = NoCatalog
    /\ prev_tools = NoCatalog
    /\ call = None
    /\ inbox \in CallRequests
    /\ resolved = None

NextDispatch == Dispatch

SpecDispatch == InitDispatch /\ [][NextDispatch]_vars

(***************************************************************************)
(* A client that calls what it was offered: it lists the tools, then calls *)
(* a name of the catalog it got back.                                      *)
(***************************************************************************)
CallListedTool ==
    /\ tools.returned
    /\ \E i \in DOMAIN tools.tools, arguments \in ClientArguments,
          response \in ClientResponses :
           CallTool(tools.tools[i].name, arguments, response)
    /\ UNCHANGED inbox

NextListed == ListTools \/ CallListedTool

SpecListed == Init /\ [][NextListed]_vars

(***************************************************************************)
(* Properties of the catalog builder, under Spec.                          *)
(***************************************************************************)
AllOperations(spec) == Range(Operations(spec))

\* no other operation of the document has the operationId of operation ij
HasUniqueOperationId(spec, ij) ==
    /\ HasKey(OperationOf(spec, ij), "operationId")
    /\ \A other \in AllOperations(spec) :
           (/\ HasKey(OperationOf(spec, other), "operationId")
            /\ OperationOf(spec, other)["operationId"]
                   = OperationOf(spec, ij)["operationId"])
           => other = ij

\* no operation without operationId gets the operationId of ij as its name
NotAFallbackName(spec, ij) ==
    \A other \in AllOperations(spec) :
        (/\ IsToolMethod(MethodOf(spec, other))
         /\ ~HasKey(OperationOf(spec, other), "operationId"))
        => MethodOf(spec, other) \o <<"_">> \o PathOf(spec, other)
               # OperationOf(spec, ij)["operationId"]

ToolsNamed(catalog, tool_name) ==
    {i \in DOMAIN catalog : catalog[i].name = tool_name}

SuccessiveBuildsAgree ==
    (tools.returned /\ prev_tools.returned) => prev_tools.tools = tools.tools

\* C1, as stated: every operation of a tool method whose operationId is
\* unique across the document has exactly one tool of that name in the
\* catalog, and two successive builds return the same catalog.
C1_OneToolPerUniqueOperationId ==
    /\ tools.returned =>
           \A ij \in AllOperations(openapi_spec) :
               (/\ IsToolMethod(MethodOf(openapi_spec, ij))
                /\ HasUniqueOperationId(openapi_spec, ij))
               => Cardinality(ToolsNamed(tools.tools,
                      OperationOf(openapi_spec, ij)["operationId"])) = 1
    /\ SuccessiveBuildsAgree

\* C1, amended: the same, for the operations whose unique operationId is
\* not also the `<method>_<path>` name given to an operation that has no
\* operationId.
C1_OneToolPerUniqueName ==
    /\ tools.returned =>
           \A ij \in AllOperations(openapi_spec) :
               (/\ IsToolMethod(MethodOf(openapi_spec, ij))
                /\ HasUniqueOperationId(openapi_spec, ij)
                /\ NotAFallbackName(openapi_spec, ij))
               => Cardinality(ToolsNamed(tools.tools,
                      OperationOf(openapi_spec, ij)["operationId"])) = 1
    /\ SuccessiveBuildsAgree

\* two builds have returned, of a document with a uniquely named operation,
\* an operationId that two operations share and a oneOf parameter schema
C1_Witness ==
    /\ tools.returned
    /\ prev_tools.returned
    /\ \E ij \in AllOperations(openapi_spec) :
           /\ IsToolMethod(MethodOf(openapi_spec, ij))
           /\ HasUniqueOperationId(openapi_spec, ij)
           /\ NotAFallbackName(openapi_spec, ij)
    /\ Cardinality(ToolsNamed(tools.tools, read)) = 2
    /\ \E i \in DOMAIN tools.tools :
           QUERY_ \o kind \in DOMAIN tools.tools[i].inputSchema.properties

HasKnownPrefix(key) ==
    StartsWith(key, PATH_) \/ StartsWith(key, QUERY_) \/ StartsWith(key, BODY_)

\* C8, as stated: in every tool of the catalog every key of the input
\* schema's properties and every entry of its required list starts with
\* path_, query_ or body_.
C8_EveryKeyNamespaced ==
    tools.returned =>
        \A i \in DOMAIN tools.tools :
            /\ \A key \in DOMAIN tools.tools[i].inputSchema.properties :
                   HasKnownPrefix(key)
            /\ \A key \in Range(tools.tools[i].inputSchema.required) :
                   HasKnownPrefix(key)

\* C10, as stated: no step of the server changes the document.
C10_DocumentNeverWritten == [][openapi_spec' = openapi_spec]_vars

(***************************************************************************)
(* Properties of the resolver, under SpecResolve.                          *)
(***************************************************************************)
RECURSIVE SourceProperties(_, _)
\* the property names the fragment at loc declares, through $ref, allOf and
\* oneOf: those marked read-only and the others.  An allOf counts a name as
\* read-only when no sub-schema declares it otherwise.
SourceProperties(mem, loc) ==
    LET schema == GetAt(mem, loc)
    IN IF HasKey(schema, "$ref") /\ RefResolves(mem, schema)
       THEN SourceProperties(mem, RefLoc(schema))
       ELSE IF HasKey(schema, "allOf")
       THEN LET subs == {SourceProperties(mem, loc \o <<"allOf", i>>) :
                            i \in DOMAIN schema["allOf"]}
                rw == UNION {sub.rw : sub \in subs}
            IN [ro |-> UNION {sub.ro : sub \in subs} \ rw, rw |-> rw]
       ELSE IF HasKey(schema, "oneOf")
       THEN SourceProperties(mem, loc \o <<"oneOf", 1>>)
       ELSE LET props == Get(schema, "properties", EmptyDict)
            IN [ro |-> {n \in DOMAIN props : IsReadOnly(props[n])},
                rw |-> {n \in DOMAIN props : ~IsReadOnly(props[n])}]

ResultNames(result) ==
    DOMAIN Get(result, "properties", EmptyDict)
    \cup Range(Get(result, "required", <<>>))

\* C3, as stated: a property the fragment marks read-only, also when it is
\* reached through $ref, allOf or oneOf, is in neither `properties` nor
\* `required` of the resolved fragment.
C3_ReadOnlyAbsent ==
    resolved # None =>
        SourceProperties(WithArg(openapi_spec, resolved.schema), <<"arg">>).ro
            \cap ResultNames(resolved.result) = {}

\* sub-schema i of the allOf fragment, resolved
ResolvedSub(fragment, i) ==
    LET mem == WithArg(openapi_spec, fragment)
    IN Deref(mem, Convert(mem, <<"arg", "allOf", i>>))

SubProperties(fragment, i) == Get(ResolvedSub(fragment, i), "properties", EmptyDict)

SubRequired(fragment, i) == Range(Get(ResolvedSub(fragment, i), "required", <<>>))

IsAllOf(fragment) ==
    /\ HasKey(fragment, "allOf")
    /\ ~(HasKey(fragment, "$ref")
         /\ RefResolves(WithArg(openapi_spec, fragment), fragment))

\* C4: the properties of a resolved allOf are the union of the resolved
\* sub-schemas' properties, each name with the value of the last sub-schema
\* that has it, and its required list is the union of their required names
\* with no name twice.
C4_AllOfIsUnionLaterWins ==
    (resolved # None /\ IsAllOf(resolved.schema)) =>
        LET f == resolved.schema
            subs == DOMAIN f["allOf"]
            props == Get(resolved.result, "properties", EmptyDict)
            req == Get(resolved.result, "required", <<>>)
        IN /\ DOMAIN props = UNION {DOMAIN SubProperties(f, i) : i \in subs}
           /\ \A n \in DOMAIN props :
                  \E i \in subs :
                      /\ n \in DOMAIN SubProperties(f, i)
                      /\ \A j \in subs :
                             n \in DOMAIN SubProperties(f, j) => j <= i
                      /\ props[n] = SubProperties(f, i)[n]
           /\ Range(req) = UNION {SubRequired(f, i) : i \in subs}
           /\ Cardinality(Range(req)) = Len(req)

\* an allOf of two sub-schemas that give one name different schemas and
\* both require it has been resolved
C4_Witness ==
    /\ resolved # None
    /\ IsAllOf(resolved.schema)
    /\ Len(resolved.schema["allOf"]) >= 2
    /\ \E n \in DOMAIN SubProperties(resolved.schema, 1) :
           /\ n \in DOMAIN SubProperties(resolved.schema, 2)
           /\ SubProperties(resolved.schema, 1)[n]
                  # SubProperties(resolved.schema, 2)[n]
           /\ n \in SubRequired(resolved.schema, 1)
           /\ n \in SubRequired(resolved.schema, 2)

(***************************************************************************)
(* Properties of the dispatcher, under SpecDispatch.                       *)
(***************************************************************************)
CredentialsMissing == API_USERNAME = EmptyStr \/ API_PASSWORD = EmptyStr

\* C2: with the username or the password absent or empty, a call of any
\* tool name with any arguments returns the MissingCredentials error and
\* sends no request.
C2_NoCredentialsNoRequest ==
    (call # None /\ CredentialsMissing) =>
        /\ call.result = [kind |-> "MissingCredentials"]
        /\ call.requests = <<>>

\* a tool of the document was called with arguments while only the
\* password was missing
C2_Witness ==
    /\ call # None
    /\ API_USERNAME # EmptyStr
    /\ API_PASSWORD = EmptyStr
    /\ Matches(openapi_spec, call.name) # <<>>
    /\ call.arguments # <<>>

\* the keys of the three groups with their prefixes back, with the values
Renamespaced(c) ==
    {<<PATH_ \o pair[1], pair[2]>> : pair \in Range(c.path_params)}
    \cup {<<QUERY_ \o pair[1], pair[2]>> : pair \in Range(c.query_params)}
    \cup {<<BODY_ \o pair[1], pair[2]>> : pair \in Range(c.body_data)}

\* C5, as stated: splitting the arguments and putting the prefixes back
\* gives the original keys with their values.
C5_SplitRoundTrip ==
    (call # None /\ call.stage = "sent") =>
        Renamespaced(call) = Range(call.arguments)

\* C5, amended: it gives the original keys that start with path_, query_
\* or body_, with their values; the other keys are in no group.
C5_SplitRoundTripOfPrefixed ==
    (call # None /\ call.stage = "sent") =>
        Renamespaced(call)
            = {pair \in Range(call.arguments) : HasKnownPrefix(pair[1])}

\* a mapping with a query_ key and a key of no prefix was split
C5_Witness ==
    /\ call # None
    /\ call.stage = "sent"
    /\ call.query_params # <<>>
    /\ \E pair \in Range(call.arguments) : ~HasKnownPrefix(pair[1])

\* C6, as stated: whatever the method, the request carries the body fields
\* as its JSON body, with a JSON Content-Type, when there are some, and no
\* body when there are none.
C6_BodySentWheneverGiven ==
    (call # None /\ call.stage = "sent") =>
        LET request == call.requests[1]
        IN IF call.body_data # <<>>
           THEN /\ HasKey(request, "json")
                /\ request["json"] = AsFunction(call.body_data)
                /\ HasKey(request.headers, "Content-Type")
                /\ request.headers["Content-Type"] = "application/json"
           ELSE ~HasKey(request, "json")

SuccessRange == 200..299

\* C7: the result is classified by the status alone: outside the success
\* range it is an HttpError with that status, 204 gives the fixed payload
\* whatever the body, any other status gives a payload made from the body.
C7_ClassifiedByStatus ==
    (call # None /\ call.stage = "sent" /\ ~call.response.transport_error) =>
        LET response == call.response
            status_code == response.status_code
        IN /\ status_code \notin SuccessRange =>
                  /\ call.result.kind = "HttpError"
                  /\ call.result.status_code = status_code
           /\ status_code = 204 =>
                  call.result =
                      [kind |-> "Success",
                       payload |->
                           [status |-> "success",
                            message |-> "Resource deleted or no content returned"]]
           /\ (status_code \in SuccessRange /\ status_code # 204) =>
                  /\ call.result.kind = "Success"
                  /\ \/ response.body.parses
                        /\ call.result.payload = response.body.json
                     \/ ~response.body.parses
                        /\ HasKey(call.result.payload, "text_preview")
                     \/ ~response.body.parses
                        /\ call.result.payload = [response |-> response.body.text]

\* a 404 whose body is JSON came back
C7_Witness ==
    /\ call # None
    /\ call.stage = "sent"
    /\ ~call.response.transport_error
    /\ call.response.status_code = 404
    /\ call.response.body.parses
    /\ call.result.kind = "HttpError"

RECURSIVE Substituted(_, _)
\* the template with every {name} of a supplied name replaced, in one pass
\* over the template, by the string form of that parameter
Substituted(template, path_params) ==
    IF template = <<>> THEN <<>>
    ELSE IF Head(template) = "{" /\ \E i \in DOMAIN template : template[i] = "}"
    THEN LET close == CHOOSE i \in DOMAIN template :
                          /\ template[i] = "}"
                          /\ \A j \in 1..(i - 1) : template[j] # "}"
             placeholder == SubSeq(template, 2, close - 1)
         IN IF placeholder \in Keys(path_params)
            THEN Str(Lookup(path_params, placeholder))
                 \o Substituted(DropFirst(template, close), path_params)
            ELSE <<"{">> \o Substituted(Tail(template), path_params)
    ELSE <<Head(template)>> \o Substituted(Tail(template), path_params)

\* C9, as stated: the URL is the base URL and the template with each
\* placeholder of a supplied path parameter replaced by that parameter's
\* own string form, whatever the other values and the order, the other
\* placeholders left as they are.
C9_EachPlaceholderItsOwnValue ==
    (call # None /\ call.stage = "sent") =>
        call.full_url = API_BASE_URL \o Substituted(call.path, call.path_params)

\* the operations of the document a tool of this name is built from
DerivedFrom(spec, tool_name) ==
    {ij \in AllOperations(spec) :
        /\ IsToolMethod(MethodOf(spec, ij))
        /\ OperationId(MethodOf(spec, ij), PathOf(spec, ij),
                       OperationOf(spec, ij)) = tool_name}

\* C11, as stated: with credentials configured, a call of a name of the
\* returned catalog is never answered ToolNotFound, and the method and path
\* template dispatched are those of the operation each descriptor of that
\* name was built from, the descriptors named `<method>_<path>` for want of
\* an operationId included.
C11_ListedToolsResolvable ==
    (/\ tools.returned
     /\ call # None
     /\ ~CredentialsMissing
     /\ ToolsNamed(tools.tools, call.name) # {})
    => /\ call.result.kind # "ToolNotFound"
       /\ call.stage = "sent"
       /\ \A ij \in DerivedFrom(openapi_spec, call.name) :
              /\ call.path = PathOf(openapi_spec, ij)
              /\ call.method = Upper(MethodOf(openapi_spec, ij))

====
